---- MODULE Spec2Model ----
(***************************************************************************)
(* Model of the PDF question-answering tool (src/app.py, document_qna_tool)*)
(* and of the web form's dispatcher (src/Gradio_UI.py, process_input).     *)
(*                                                                         *)
(* Text is a sequence of tokens: a one-character string per character of   *)
(* data, and one token per literal of the source.  The external services   *)
(* (the document reader, the embedding model, the similarity function, the *)
(* generation pipeline, agent.run) are inputs: each step that calls one    *)
(* draws its response, or the fault it raises, from a small set.           *)
(***************************************************************************)
EXTENDS Integers, Sequences, FiniteSets, TLC

\* ------------------------------------------------------------------ bounds
\* Largest number of pages of a document.
MaxPages == 2

\* ------------------------------------------------------------- input sets
\* None, where a text is expected (a text never holds this token).
None == << "None" >>
\* None, where an uploaded file is expected.
NoFile == [name |-> "None"]
\* A local of the tool that is not bound yet: a list, a tensor, a number.
Unbound == <<>>
NoIndex == 0 - 1
\* No fault caught.
NoFault == [at |-> "none", desc |-> "none"]

\* str.strip() with no argument removes these from both ends: the characters
\* for which str.isspace() holds.  A character without an escape of its own
\* is the token naming its code point.
Whitespace ==
  { "\t", "\n", "U+000B", "\f", "\r", "U+001C", "U+001D", "U+001E", "U+001F",
    " ", "U+0085", "U+00A0", "U+1680", "U+2000", "U+2001", "U+2002", "U+2003",
    "U+2004", "U+2005", "U+2006", "U+2007", "U+2008", "U+2009", "U+200A",
    "U+2028", "U+2029", "U+202F", "U+205F", "U+3000" }

\* Texts a page can yield: none, whitespace only (a form feed and a no-break
\* space among it), bare, padded on both sides.
PageTexts ==
  { <<>>, <<" ", "\f", "U+00A0">>, <<"p">>, <<"\n", "q", " ", "\r">> }

\* The query field of the form: absent, empty, whitespace only, or a request.
Queries == { None, <<>>, <<" ", "\t">>, <<"w", "?">>, <<" ", "k", "?">> }

\* Uploaded files: gr.File objects, of which only .name is read.
Files == { [name |-> "a.pdf"], [name |-> "b.pdf"] }
Paths == { f.name : f \in Files }

\* Embedding vectors.  Their norms are 0, 1 or 5, so that a cosine times
\* ScoreScale is an integer and scores are compared exactly.
Vectors == { <<0, 0>>, <<1, 0>>, <<3, 4>>, <<-1, 0>> }
ScoreScale == 5 * 5

\* What the generation pipeline returns: a list of results, each a record
\* with the generated text.
GenOutputs ==
  { << [generated_text |-> <<>>] >>,
    << [generated_text |-> <<"y">>] >>,
    << [generated_text |-> <<" ", "y", " ", "z", "\r", "\n">>] >>,
    << [generated_text |-> <<"U+3000", "z">>], [generated_text |-> <<"y">>] >> }

\* What the agent passes when it calls the tool from inside agent.run.
AgentPaths == { "c.pdf" }
AgentQuestions == { <<>>, <<"w", "?">> }

\* Descriptions str(e) of the faults a service can raise.
FaultDescs == { "e1", "e2" }

\* What agent.run returns for a general request.
AgentAnswers == { <<"r", "1">>, <<"r", "2">> }

\* ---------------------------------------------------------- pure helpers
\* s.strip(): drop the leading, then the trailing whitespace.
RECURSIVE LStrip(_)
LStrip(s) ==
  IF s # <<>> /\ Head(s) \in Whitespace THEN LStrip(Tail(s)) ELSE s

RECURSIVE RStrip(_)
RStrip(s) ==
  IF s # <<>> /\ s[Len(s)] \in Whitespace
    THEN RStrip(SubSeq(s, 1, Len(s) - 1))
    ELSE s

Strip(s) == RStrip(LStrip(s))

\* Truth value of a str (or None) in a condition.
Truthy(s) == s # None /\ s # <<>>

\* A literal of the source, as text.
Lit(s) == << s >>

\* ------------------------------------------------------ similarity, argmax
Dot(a, b) == a[1] * b[1] + a[2] * b[2]

\* Euclidean norm of a vector of Vectors (an integer for each of them).
Norm(v) == CHOOSE n \in 0..5 : n * n = Dot(v, v)

\* util.pytorch_cos_sim of two vectors, times ScoreScale.  Both vectors are
\* normalised first, with the norm clamped away from zero, so a zero vector
\* scores 0 against everything.
CosSim(a, b) ==
  IF Norm(a) = 0 \/ Norm(b) = 0
    THEN 0
    ELSE (Dot(a, b) * ScoreScale) \div (Norm(a) * Norm(b))

\* util.pytorch_cos_sim(question_embedding, embeddings)[0]: one score per
\* chunk embedding, in the order of the embeddings.
CosSimRow(q, embs) == [i \in 1..Len(embs) |-> CosSim(q, embs[i])]

\* Variant: the last maximal score wins a tie.
ArgMaxLast(sc) ==
  (CHOOSE i \in 1..Len(sc) :
      /\ \A j \in 1..Len(sc) : sc[j] <= sc[i]
      /\ \A j \in (i + 1)..Len(sc) : sc[j] < sc[i]) - 1

\* scores.argmax(): the 0-based index of the first maximal score.
ArgMax(sc) ==
  (CHOOSE i \in 1..Len(sc) :
      /\ \A j \in 1..Len(sc) : sc[j] <= sc[i]
      /\ \A j \in 1..(i - 1) : sc[j] < sc[i]) - 1

\* text_chunks[best_match_idx], for a 0-based index.
At(seq, idx) == seq[idx + 1]

\* ------------------------------------------------------------ the program
\* max_new_tokens of the generation request.
MaxNewTokens == 100

\* The tools list given to CodeAgent, in order.
Tools ==
  << "get_current_time_in_timezone", "get_current_weather",
     "image_generation_tool", "search_tool", "document_qna_tool",
     "final_answer" >>

\* The position process_input reads the document tool from (0-based).
ToolIndex == 4

\* How the agent object keeps the tools it was given, which self.agent.tools
\* exposes: as the list itself, or as a mapping from each tool's name to the
\* tool.  The agent class is a library's; either is an outcome of the build.
ToolContainers == { "list", "dict" }

VARIABLES
  tools_as,           \* the container behind agent.tools, fixed at start-up
  pc,                 \* where the program is: "idle", "agent_run" (inside
                      \* agent.run), a step of the tool, "done"
  caller,             \* who invoked the tool: "ui", "agent", or "none"
  query, pdf_file,    \* arguments of the current process_input call
  ui_calls,           \* calls process_input has made: tools[4](..), agent.run(..)
  ui_response,        \* what process_input returned
  pdf_path, question, \* arguments of the current document_qna_tool call
  handle,             \* the document handle: "none", "open", "closed"
  n_pages,            \* number of pages of the opened document
  pages,              \* page texts extracted so far, in page order
  text_chunks, embeddings, question_embedding, scores,
  best_match_idx, best_context, prompt, max_new_tokens, outputs,
  result,             \* what document_qna_tool returned
  trace,              \* service calls of the current tool invocation, in order
  fault,              \* the fault caught by the except clause, if any
  prior               \* how the previous tool invocation ended

ui_vars == << query, pdf_file, ui_calls, ui_response >>
arg_vars == << pdf_path, question >>
doc_vars == << handle, n_pages, pages >>
search_vars == << embeddings, question_embedding, scores, best_match_idx,
                 best_context >>
gen_vars == << prompt, max_new_tokens, outputs >>
vars == << tools_as, pc, caller, ui_vars, arg_vars, doc_vars, text_chunks, search_vars,
           gen_vars, result, trace, fault, prior >>

Init ==
  /\ tools_as \in ToolContainers
  /\ pc = "idle"
  /\ caller = "none"
  /\ query = None /\ pdf_file = NoFile /\ ui_calls = <<>> /\ ui_response = None
  /\ pdf_path = "None" /\ question = None
  /\ handle = "none" /\ n_pages = 0 /\ pages = <<>>
  /\ text_chunks = <<>>
  /\ embeddings = Unbound /\ question_embedding = Unbound /\ scores = Unbound
  /\ best_match_idx = NoIndex /\ best_context = None
  /\ prompt = None /\ max_new_tokens = NoIndex /\ outputs = Unbound
  /\ result = None
  /\ trace = <<>>
  /\ fault = NoFault
  /\ prior = "none"

\* How a finished invocation ended, by the literal its result starts with.
Outcome(r) ==
  IF r = None THEN "none"
  ELSE IF Head(r) = "Answer: " THEN "answer"
  ELSE IF Head(r) = "No text found in the PDF." THEN "empty"
  ELSE "error"

\* Entry into document_qna_tool(path, q): a new frame, in which only the
\* two parameters are bound.
EnterTool(path, q, who) ==
  /\ pc' = "open"
  /\ caller' = who
  /\ pdf_path' = path /\ question' = q
  /\ handle' = "none" /\ n_pages' = 0 /\ pages' = <<>>
  /\ embeddings' = Unbound /\ question_embedding' = Unbound
  /\ scores' = Unbound
  /\ best_match_idx' = NoIndex /\ best_context' = None
  /\ prompt' = None /\ max_new_tokens' = NoIndex /\ outputs' = Unbound
  /\ result' = None
  /\ trace' = <<>>
  /\ fault' = NoFault
  /\ prior' = Outcome(result)
  /\ text_chunks' = Unbound

\* Variant: the description of the fault is left out.
ErrorResultNoDesc(desc) == Lit("Error processing document QnA: ")

\* except Exception as e: return f"Error processing document QnA: {str(e)}"
ErrorResult(desc) == Lit("Error processing document QnA: ") \o Lit(desc)

\* Variant: the failed step is attempted again instead of ending the call.
RaiseRetry(call, desc) ==
  /\ trace' = Append(trace, call)
  /\ fault' = [at |-> call, desc |-> desc]
  /\ UNCHANGED << result, pc >>

\* A service call `call` raises a fault described by desc: control goes to
\* the except clause, which returns the error string.
Raise(call, desc) ==
  /\ trace' = Append(trace, call)
  /\ fault' = [at |-> call, desc |-> desc]
  /\ result' = ErrorResult(desc)
  /\ pc' = "done"

\* text_chunks = []
NewChunkList == <<>>

\* doc = fitz.open(pdf_path); text_chunks = []
OpenDocument ==
  /\ pc = "open"
  /\ \/ \E n \in 0..MaxPages :
          /\ handle' = "open" /\ n_pages' = n /\ pages' = <<>>
          /\ text_chunks' = NewChunkList
          /\ trace' = Append(trace, "open")
          /\ pc' = "pages"
          /\ UNCHANGED << result, fault >>
     \/ \E d \in FaultDescs :
          /\ Raise("open", d)
          /\ UNCHANGED << doc_vars, text_chunks >>
  /\ UNCHANGED << tools_as, caller, ui_vars, arg_vars, search_vars, gen_vars, prior >>

\* Variant: the test is on the text itself, not on text.strip().
KeepChunkUnstripped(chunks, text) ==
  IF Truthy(text) THEN Append(chunks, text) ELSE chunks

\* Variant: the trimmed text is kept instead of the page's text.
KeepChunkTrimmed(chunks, text) ==
  IF Truthy(Strip(text)) THEN Append(chunks, Strip(text)) ELSE chunks

\* if text.strip(): text_chunks.append(text)
KeepChunk(chunks, text) ==
  IF Truthy(Strip(text)) THEN Append(chunks, text) ELSE chunks

\* One iteration of `for page in doc`: text = page.get_text(), kept as a
\* chunk when it is non-empty after strip().
ExtractPage ==
  /\ pc = "pages"
  /\ Len(pages) < n_pages
  /\ \/ \E text \in PageTexts :
          /\ pages' = Append(pages, text)
          /\ text_chunks' = KeepChunk(text_chunks, text)
          /\ trace' = Append(trace, "get_text")
          /\ UNCHANGED << pc, result, fault, handle, n_pages >>
     \/ \E d \in FaultDescs :
          /\ Raise("get_text", d)
          /\ UNCHANGED << doc_vars, text_chunks >>
  /\ UNCHANGED << tools_as, caller, ui_vars, arg_vars, search_vars, gen_vars, prior >>

\* After the last page: doc.close(); then
\* if not text_chunks: return "No text found in the PDF."
\* A fault raised by close() is caught like any other, the handle not closed.
CloseDocument ==
  /\ pc = "pages"
  /\ Len(pages) = n_pages
  /\ \/ /\ handle' = "closed"
        /\ trace' = Append(trace, "close")
        /\ IF text_chunks = <<>>
             THEN /\ result' = Lit("No text found in the PDF.")
                  /\ pc' = "done"
             ELSE /\ pc' = "encode_chunks"
                  /\ UNCHANGED result
        /\ UNCHANGED fault
     \/ \E d \in FaultDescs :
          /\ Raise("close", d)
          /\ UNCHANGED handle
  /\ UNCHANGED << tools_as, caller, ui_vars, arg_vars, n_pages, pages, text_chunks,
                  search_vars, gen_vars, prior >>

\* Variant: the chunk embeddings come from a cache kept between calls; the
\* embedding service is not called.
EncodeChunksCached ==
  /\ pc = "encode_chunks"
  /\ \E embs \in [1..Len(text_chunks) -> Vectors] : embeddings' = embs
  /\ pc' = "encode_question"
  /\ UNCHANGED << question_embedding, scores, best_match_idx, best_context,
                  result, fault, trace, tools_as, caller, ui_vars, arg_vars, doc_vars,
                  text_chunks, gen_vars, prior >>

\* embeddings = embedding_model.encode(text_chunks, convert_to_tensor=True):
\* one vector per chunk, in the order of the chunks.
EncodeChunks ==
  /\ pc = "encode_chunks"
  /\ \/ \E embs \in [1..Len(text_chunks) -> Vectors] :
          /\ embeddings' = embs
          /\ trace' = Append(trace, "encode_chunks")
          /\ pc' = "encode_question"
          /\ UNCHANGED << question_embedding, scores, best_match_idx,
                          best_context, result, fault >>
     \/ \E d \in FaultDescs :
          /\ Raise("encode_chunks", d)
          /\ UNCHANGED search_vars
  /\ UNCHANGED << tools_as, caller, ui_vars, arg_vars, doc_vars, text_chunks, gen_vars,
                  prior >>

\* question_embedding = embedding_model.encode(question, convert_to_tensor=True)
EncodeQuestion ==
  /\ pc = "encode_question"
  /\ \/ \E v \in Vectors :
          /\ question_embedding' = v
          /\ trace' = Append(trace, "encode_question")
          /\ pc' = "cos_sim"
          /\ UNCHANGED << embeddings, scores, best_match_idx, best_context,
                          result, fault >>
     \/ \E d \in FaultDescs :
          /\ Raise("encode_question", d)
          /\ UNCHANGED search_vars
  /\ UNCHANGED << tools_as, caller, ui_vars, arg_vars, doc_vars, text_chunks, gen_vars,
                  prior >>

\* Variant: context and question are trimmed before they are joined.
PromptTrimmed(context, q) ==
  Lit("Context: ") \o Strip(context) \o Lit("\nQuestion: ") \o Strip(q)

\* prompt = f"Context: {best_context}\nQuestion: {question}"
Prompt(context, q) ==
  Lit("Context: ") \o context \o Lit("\nQuestion: ") \o q

\* scores = util.pytorch_cos_sim(question_embedding, embeddings)[0]
\* best_match_idx = scores.argmax(); best_context = text_chunks[best_match_idx]
\* prompt = f"Context: {best_context}\nQuestion: {question}"
SelectContext ==
  /\ pc = "cos_sim"
  /\ \/ LET sc == CosSimRow(question_embedding, embeddings)
            idx == ArgMax(sc)
            ctx == At(text_chunks, idx)
        IN  /\ scores' = sc
            /\ best_match_idx' = idx
            /\ best_context' = ctx
            /\ prompt' = Prompt(ctx, question)
            /\ trace' = Append(trace, "cos_sim")
            /\ pc' = "generate"
            /\ UNCHANGED << embeddings, question_embedding, result, fault >>
     \/ \E d \in FaultDescs :
          /\ Raise("cos_sim", d)
          /\ UNCHANGED << search_vars, prompt >>
  /\ UNCHANGED << tools_as, caller, ui_vars, arg_vars, doc_vars, text_chunks,
                  max_new_tokens, outputs, prior >>

\* Variant: the generated text is returned as it came.
AnswerResultRaw(outs) == Lit("Answer: ") \o outs[1].generated_text

\* return f"Answer: {answer.strip()}", answer the first result's text
AnswerResult(outs) == Lit("Answer: ") \o Strip(outs[1].generated_text)

\* answer = qa_pipeline(prompt, max_new_tokens=100)[0]['generated_text']
\* return f"Answer: {answer.strip()}"
Generate ==
  /\ pc = "generate"
  /\ max_new_tokens' = MaxNewTokens
  /\ \/ \E outs \in GenOutputs :
          /\ outputs' = outs
          /\ result' = AnswerResult(outs)
          /\ trace' = Append(trace, "generate")
          /\ pc' = "done"
          /\ UNCHANGED fault
     \/ \E d \in FaultDescs :
          /\ Raise("generate", d)
          /\ UNCHANGED outputs
  /\ UNCHANGED << tools_as, caller, ui_vars, arg_vars, doc_vars, text_chunks,
                  search_vars, prompt, prior >>

\* ------------------------------------------------- GradioUI.process_input
\* The tool's frame and outcome, untouched by a step outside the tool.
tool_vars == << arg_vars, doc_vars, text_chunks, search_vars, gen_vars,
                result, trace, fault, prior >>

ToolCall(f, q) ==
  [fn |-> "agent.tools[4]", args |-> << Lit(f.name), q >>]
RunCall(q) == [fn |-> "agent.run", args |-> << q >>]

\* process_input returns `response`.
Respond(calls, response) ==
  /\ ui_calls' = calls
  /\ ui_response' = response
  /\ pc' = "idle"

\* process_input(query, pdf_file), up to its return, to the entry into the
\* document tool, or to the entry into agent.run.
ProcessInput(q, f) ==
  /\ pc = "idle"
  /\ query' = q /\ pdf_file' = f
  /\ UNCHANGED tools_as
  /\ IF f # NoFile /\ Truthy(q) /\ Truthy(Strip(q))
       THEN \* response = self.agent.tools[4](pdf_file.name, query)
            IF tools_as = "dict"
              THEN \* no tool is keyed by 4: KeyError(4), caught by
                   \* `except Exception`, str(e) = "4"
                   /\ Respond(<<>>, Lit("An error occurred during Document Q&A: ") \o Lit("4"))
                   /\ caller' = "none"
                   /\ UNCHANGED tool_vars
            ELSE IF ToolIndex + 1 > Len(Tools)
              THEN /\ Respond(<<>>, Lit("Error: Document Q&A tool not found at the expected index (4). Check agent tool setup in app.py."))
                   /\ caller' = "none"
                   /\ UNCHANGED tool_vars
            ELSE IF At(Tools, ToolIndex) = "document_qna_tool"
              THEN /\ EnterTool(f.name, q, "ui")
                   /\ ui_calls' = << ToolCall(f, q) >>
                   /\ ui_response' = None
            ELSE \* another tool sits at the index: its answer, or its fault
                 /\ caller' = "none"
                 /\ UNCHANGED tool_vars
                 /\ \/ \E r \in AgentAnswers : Respond(<< ToolCall(f, q) >>, r)
                    \/ Respond(<< ToolCall(f, q) >>,
                               Lit("Error: Document Q&A tool not found at the expected index (4). Check agent tool setup in app.py."))
                    \/ \E d \in FaultDescs :
                         Respond(<< ToolCall(f, q) >>,
                                 Lit("An error occurred during Document Q&A: ") \o Lit(d))
     ELSE IF Truthy(q) /\ Truthy(Strip(q))
       THEN \* response = self.agent.run(query): the call is entered
            /\ ui_calls' = << RunCall(q) >>
            /\ ui_response' = None
            /\ pc' = "agent_run"
            /\ caller' = "none"
            /\ UNCHANGED tool_vars
     ELSE IF f # NoFile
       THEN /\ Respond(<<>>, Lit("Please enter a question in the textbox to ask about the uploaded PDF."))
            /\ caller' = "none"
            /\ UNCHANGED tool_vars
     ELSE /\ Respond(<<>>, Lit("Please enter a request or upload a document for analysis."))
          /\ caller' = "none"
          /\ UNCHANGED tool_vars

\* The tool returns: its frame is discarded.  What is left is the returned
\* string and the state of the document handle.
DiscardFrame ==
  /\ n_pages' = 0 /\ pages' = <<>>
  /\ text_chunks' = Unbound
  /\ embeddings' = Unbound /\ question_embedding' = Unbound
  /\ scores' = Unbound
  /\ best_match_idx' = NoIndex /\ best_context' = None
  /\ prompt' = None /\ max_new_tokens' = NoIndex /\ outputs' = Unbound
  /\ trace' = <<>>
  /\ fault' = NoFault
  /\ UNCHANGED << arg_vars, handle, result, prior >>

\* print("Document Q&A tool finished."); return response
ReturnToUI ==
  /\ pc = "done" /\ caller = "ui"
  /\ ui_response' = result
  /\ pc' = "idle"
  /\ DiscardFrame
  /\ UNCHANGED << tools_as, caller, query, pdf_file, ui_calls >>

\* Inside agent.run the agent calls the tools registered with it, the
\* document tool among them, with a path and a question of its own.
AgentCallsTool(path, q) ==
  /\ pc = "agent_run"
  /\ EnterTool(path, q, "agent")
  /\ UNCHANGED << tools_as, ui_vars >>

\* The tool returns to the agent, which goes on running.
ReturnToAgent ==
  /\ pc = "done" /\ caller = "agent"
  /\ pc' = "agent_run"
  /\ DiscardFrame
  /\ UNCHANGED << tools_as, caller, ui_vars >>

\* agent.run returns its answer, or raises and process_input returns the
\* error string of its except clause.
AgentRunReturns ==
  /\ pc = "agent_run"
  /\ \/ \E r \in AgentAnswers : Respond(ui_calls, r)
     \/ \E d \in FaultDescs :
          Respond(ui_calls,
                  Lit("An error occurred while processing your request: ") \o Lit(d))
  /\ UNCHANGED << tools_as, caller, query, pdf_file, tool_vars >>

Next ==
  \/ \E q \in Queries, f \in Files \cup {NoFile} : ProcessInput(q, f)
  \/ \E path \in AgentPaths, q \in AgentQuestions : AgentCallsTool(path, q)
  \/ AgentRunReturns
  \/ OpenDocument
  \/ ExtractPage
  \/ CloseDocument
  \/ EncodeChunks
  \/ EncodeQuestion
  \/ SelectContext
  \/ Generate
  \/ ReturnToUI
  \/ ReturnToAgent

Spec == Init /\ [][Next]_vars

\* ================================================================= claims
\* Vocabulary of the properties.
NonBlank(text) == Strip(text) # <<>>
InTool == pc \notin {"idle", "agent_run"}
AllPagesRead == handle # "none" /\ Len(pages) = n_pages
Called(call) == \E i \in 1..Len(trace) : trace[i] = call
Count(call) == Cardinality({ i \in 1..Len(trace) : trace[i] = call })
AllWhitespace(s) == \A i \in 1..Len(s) : s[i] \in Whitespace

\* C1: every fault raised by the open, the page text extraction, either
\* embedding, the similarity computation or the generation ends the call
\* with the string "Error processing document QnA: " followed by the
\* fault's description; a finished call has always returned a string.
C1_FaultsBecomeErrorStrings ==
  /\ fault # NoFault =>
       /\ pc = "done"
       /\ result = << "Error processing document QnA: ", fault.desc >>
  /\ pc = "done" => result # None /\ Len(result) >= 1

C1_Witness ==
  /\ pc = "done"
  /\ fault = [at |-> "generate", desc |-> "e2"]
  /\ result = << "Error processing document QnA: ", "e2" >>

\* C2: once the document has been opened, its handle is closed when the
\* call returns, on every exit path.
C2_HandleClosedOnReturn ==
  (pc = "done" /\ handle # "none") => handle = "closed"

\* C3 as stated: when every page of the document is empty after trimming (a
\* document without pages included), the call returns "No text found in the
\* PDF." and calls neither the embedding nor the generation service.
C3_BlankDocument ==
  (/\ pc = "done"
   /\ AllPagesRead
   /\ \A i \in 1..Len(pages) : ~NonBlank(pages[i]))
  => /\ result = << "No text found in the PDF." >>
     /\ ~Called("encode_chunks") /\ ~Called("encode_question")
     /\ ~Called("cos_sim") /\ ~Called("generate")

\* C3 as amended: for such a document the call makes no call to the
\* embedding or the generation service, and returns "No text found in the
\* PDF." unless closing the document raises a fault, in which case it
\* returns the error string of that fault.
C3_BlankDocumentUnlessCloseFails ==
  (/\ pc = "done"
   /\ AllPagesRead
   /\ \A i \in 1..Len(pages) : ~NonBlank(pages[i]))
  => /\ ~Called("encode_chunks") /\ ~Called("encode_question")
     /\ ~Called("cos_sim") /\ ~Called("generate")
     /\ fault = NoFault =>
          handle = "closed" /\ result = << "No text found in the PDF." >>
     /\ fault # NoFault =>
          /\ fault.at = "close"
          /\ result = << "Error processing document QnA: ", fault.desc >>

C3_Witness ==
  /\ pc = "done"
  /\ pages = << <<>>, <<" ", "\f", "U+00A0">> >>
  /\ handle = "closed"
  /\ result = << "No text found in the PDF." >>
  /\ trace = << "open", "get_text", "get_text", "close" >>

\* C4: the context is the chunk whose cosine similarity to the question is
\* the maximum over all chunks, the first such chunk in page order when
\* several tie; with one chunk it is that chunk.
C4_BestChunkFirstOnTie ==
  best_match_idx # NoIndex =>
    LET k == best_match_idx + 1
        cos(i) == CosSim(question_embedding, embeddings[i])
    IN  /\ k \in 1..Len(text_chunks)
        /\ \A j \in 1..Len(text_chunks) : cos(j) <= cos(k)
        /\ \A j \in 1..(k - 1) : cos(j) < cos(k)
        /\ best_context = text_chunks[k]
        /\ Len(text_chunks) = 1 => best_context = text_chunks[1]

C4_Witness ==
  /\ pc = "done"
  /\ Len(text_chunks) = 2 /\ Len(scores) = 2
  /\ text_chunks[1] # text_chunks[2]
  /\ scores[1] = scores[2]
  /\ embeddings[1] # embeddings[2]
  /\ best_match_idx = 0
  /\ best_context = text_chunks[1]

\* C5: the chunk list is the subsequence, in page order, of the page texts
\* that are non-empty after trimming; there is one score per chunk, the
\* i-th score being that of the i-th chunk's embedding, and the selected
\* index is used on that same list.
C5_ChunksAreNonBlankPagesInOrder ==
  /\ (InTool /\ handle # "none") =>
       text_chunks = SelectSeq(pages, NonBlank)
  /\ embeddings # Unbound => Len(embeddings) = Len(text_chunks)
  /\ scores # Unbound =>
       /\ Len(scores) = Len(text_chunks)
       /\ \A i \in 1..Len(scores) :
            scores[i] = CosSim(question_embedding, embeddings[i])
       /\ best_context = SelectSeq(pages, NonBlank)[best_match_idx + 1]

C5_Witness ==
  /\ pc = "done"
  /\ Len(pages) = 2
  /\ ~NonBlank(pages[1]) /\ pages[1] # <<>>
  /\ NonBlank(pages[2])
  /\ text_chunks = << pages[2] >>
  /\ best_match_idx = 0
  /\ best_context = pages[2]

\* C6: when generation succeeds the call returns "Answer: " followed by the
\* first result's text without its leading and trailing whitespace; what
\* follows the prefix neither starts nor ends with whitespace.
C6_AnswerIsTrimmedFirstResult ==
  (pc = "done" /\ outputs # Unbound) =>
    LET text == outputs[1].generated_text
        body == Tail(result)
    IN  /\ Head(result) = "Answer: "
        /\ \E i \in 0..Len(text) :
             /\ i + Len(body) <= Len(text)
             /\ body = SubSeq(text, i + 1, i + Len(body))
             /\ AllWhitespace(SubSeq(text, 1, i))
             /\ AllWhitespace(SubSeq(text, i + Len(body) + 1, Len(text)))
        /\ body # <<>> =>
             /\ Head(body) \notin Whitespace
             /\ body[Len(body)] \notin Whitespace

C6_Witness ==
  /\ pc = "done"
  /\ outputs = << [generated_text |-> <<" ", "y", " ", "z", "\r", "\n">>] >>
  /\ result = << "Answer: ", "y", " ", "z" >>

\* C7: the prompt given to the generation service is "Context: ", the
\* selected chunk's text as extracted, "\nQuestion: " and the question as
\* received; the request asks for at most 100 new tokens.
C7_PromptAndTokenLimit ==
  /\ prompt # None =>
       /\ prompt = << "Context: " >> \o text_chunks[best_match_idx + 1]
                     \o << "\nQuestion: " >> \o question
       /\ \E i \in 1..Len(pages) : text_chunks[best_match_idx + 1] = pages[i]
  /\ Called("generate") => max_new_tokens = 100 /\ prompt # None

C7_Witness ==
  /\ pc = "done"
  /\ outputs # Unbound
  /\ question = <<" ", "k", "?">>
  /\ best_context = <<"\n", "q", " ", "\r">>
  /\ prompt = << "Context: ", "\n", "q", " ", "\r", "\nQuestion: ",
                 " ", "k", "?" >>
  /\ max_new_tokens = 100

\* C8: a call's outcome is a function of its own document, question and
\* service responses, whatever calls came before: the chunks are those of
\* this call's pages, the prompt is built from them, both embeddings are
\* computed in this call, and the result follows from this call's
\* responses alone.
ChunksOfThisCall == SelectSeq(pages, NonBlank)
ResultOfThisCall ==
  IF fault # NoFault
    THEN << "Error processing document QnA: ", fault.desc >>
  ELSE IF ChunksOfThisCall = <<>>
    THEN << "No text found in the PDF." >>
  ELSE << "Answer: " >> \o Strip(outputs[1].generated_text)

C8_CallsAreIndependent ==
  /\ pc = "done" => result = ResultOfThisCall
  /\ (pc = "done" /\ outputs # Unbound) =>
       /\ Count("encode_chunks") = 1 /\ Count("encode_question") = 1
       /\ Len(embeddings) = Len(ChunksOfThisCall)
       /\ prompt = << "Context: " >>
                     \o ChunksOfThisCall[ArgMax(CosSimRow(question_embedding, embeddings)) + 1]
                     \o << "\nQuestion: " >> \o question
  /\ pc = "open" =>
       /\ trace = <<>> /\ result = None
       /\ text_chunks = Unbound /\ embeddings = Unbound

C8_Witness ==
  /\ pc = "done"
  /\ prior = "answer"
  /\ n_pages = 1
  /\ result = << "No text found in the PDF." >>

\* C9: process_input with a file and a non-blank query calls the tool at
\* position 4 of the agent's tools, the document tool, with the file's path
\* and the query, returns its result as it is and does not call agent.run;
\* without a file and with a non-blank query it calls agent.run(query) and
\* does not call the document tool itself; with a file and a blank query, or
\* with neither, it makes no call and returns the matching request for input.
C9_Routing ==
  (ui_calls # <<>> \/ ui_response # None) =>
    LET asked == query # None /\ Strip(query) # <<>>
        file == pdf_file # NoFile
    IN  /\ (file /\ asked) =>
              /\ ui_calls = << [fn |-> "agent.tools[4]",
                                args |-> << << pdf_file.name >>, query >>] >>
              /\ Tools[4 + 1] = "document_qna_tool"
              /\ caller = "ui"
              /\ pc # "agent_run"
              /\ pdf_path = pdf_file.name /\ question = query
              /\ pc = "idle" => ui_response = result /\ result # None
        /\ (~file /\ asked) =>
              /\ ui_calls = << [fn |-> "agent.run", args |-> << query >>] >>
              /\ caller # "ui"
              /\ pc = "idle" => ui_response # None
        /\ (file /\ ~asked) =>
              /\ pc = "idle" /\ ui_calls = <<>> /\ caller = "none"
              /\ ui_response = << "Please enter a question in the textbox to ask about the uploaded PDF." >>
        /\ (~file /\ ~asked) =>
              /\ pc = "idle" /\ ui_calls = <<>> /\ caller = "none"
              /\ ui_response = << "Please enter a request or upload a document for analysis." >>

\* C10: within one invocation the document is opened, the chunks embedded,
\* the question embedded, the similarity computed and the generation
\* service called at most once each and in that order, a page's text is
\* read at most once per page, and the call that raised a fault is the last
\* call of the invocation.
Rank(call) ==
  CASE call = "open" -> 1
    [] call = "get_text" -> 2
    [] call = "close" -> 3
    [] call = "encode_chunks" -> 4
    [] call = "encode_question" -> 5
    [] call = "cos_sim" -> 6
    [] call = "generate" -> 7

C10_NoRetry ==
  /\ \A i, j \in 1..Len(trace) :
       i < j => \/ Rank(trace[i]) < Rank(trace[j])
                \/ trace[i] = "get_text" /\ trace[j] = "get_text"
  /\ Count("get_text") <= n_pages
  /\ fault # NoFault =>
       /\ pc = "done"
       /\ trace[Len(trace)] = fault.at
       /\ fault.at # "get_text" => Count(fault.at) = 1

C10_Witness ==
  /\ pc = "done"
  /\ fault.at = "encode_question"
  /\ trace = << "open", "get_text", "close", "encode_chunks",
                "encode_question" >>

====
